---- MODULE Spec2Model ----
(***************************************************************************)
(* Model of the ragdocs server: the vector-collection lifecycle            *)
(* (QdrantWrapper.initializeCollection, ApiClient.initCollection), the     *)
(* ingestion and deletion paths, and the search front end.                 *)
(***************************************************************************)
EXTENDS Integers, Sequences, FiniteSets, TLC

VARIABLES
    coll,      \* the 'documentation' collection in the vector store
    points,    \* the records (points) stored in the collection
    provider,  \* embedding provider of the server's ApiClient (fixed at start-up)
    phase,     \* "boot" | "serving" | "crashed"
    last,      \* outcome of the last handler that ran
    callers,   \* concurrent calls in flight (SpecRace, SpecAddRace)
    search,    \* outcome of the last search request (SpecSearch)
    listing,   \* outcome of the last list request (SpecList)
    chunking,  \* outcome of the last chunkText call (SpecChunk)
    fetching   \* the content fetch in progress (SpecFetch)

vars == <<coll, points, provider, phase, last, callers, search, listing, chunking,
          fetching>>

----------------------------------------------------------------------------
(* Bounds of the model *)

MaxChunks == 1     \* chunks a handler ingestion produces
MaxRand == 1       \* records with a random id held at once
MaxFaultAt == 6    \* position of an injected store fault inside one call
MaxHits == 2       \* candidates the store holds for one search
MaxTotal == 45     \* canonical records the store counts for one listing
MaxPieces == 2     \* pieces a text given to the chunker is made of
MaxBatches == 3    \* batches one ingestion of the handler is split into
MaxToolChunks == 2 \* chunks a document ingested by AddDocumentationTool has

----------------------------------------------------------------------------
(* Strings are sequences of character codes, so that URL parsing, hostname *)
(* extraction and the point-id hash are computed, not looked up.           *)

\* "http://a", "http://b" and the relative file path "a.md"
UrlA == <<104, 116, 116, 112, 58, 47, 47, 97>>
UrlB == <<104, 116, 116, 112, 58, 47, 47, 98>>
PathA == <<97, 46, 109, 100>>
URLS == {UrlA, UrlB, PathA}

IsAlpha(c) == (c >= 97 /\ c <= 122) \/ (c >= 65 /\ c <= 90)

\* a character that may follow the first one of a URL scheme
IsSchemeChar(c) == IsAlpha(c) \/ (c >= 48 /\ c <= 57) \/ c \in {43, 45, 46}

\* '/' or '\'
IsSlash(c) == c \in {47, 92}

\* position of the first ':' of s, 0 when there is none
ColonPos(s) ==
    IF \E i \in 1..Len(s) : s[i] = 58
    THEN CHOOSE i \in 1..Len(s) : s[i] = 58 /\ \A j \in 1..(i - 1) : s[j] # 58
    ELSE 0

\* the scheme of s is "http" or "https"
IsHttpScheme(s, k) ==
    SubSeq(s, 1, k - 1) \in {<<104, 116, 116, 112>>, <<104, 116, 116, 112, 115>>}

\* new URL(s) succeeds (no base URL): s starts with a scheme, and an http(s)
\* URL has a non-empty host after the slashes that follow the scheme
ParsesAsUrl(s) ==
    LET k == ColonPos(s) IN
    /\ k > 1
    /\ IsAlpha(s[1])
    /\ \A j \in 2..(k - 1) : IsSchemeChar(s[j])
    /\ IsHttpScheme(s, k) =>
            \E i \in (k + 1)..Len(s) :
                /\ ~IsSlash(s[i])
                /\ s[i] \notin {58, 63, 35}
                /\ \A j \in (k + 1)..(i - 1) : IsSlash(s[j])

\* new URL(s).hostname of an http(s) URL: from the first character after the
\* slashes up to the next '/', ':', '?' or '#'
Hostname(s) ==
    LET k == ColonPos(s)
        from == CHOOSE i \in (k + 1)..Len(s) :
                    ~IsSlash(s[i]) /\ \A j \in (k + 1)..(i - 1) : IsSlash(s[j])
        ends == {i \in from..Len(s) : IsSlash(s[i]) \/ s[i] \in {58, 63, 35}}
        stop == IF ends = {} THEN Len(s)
                ELSE (CHOOSE i \in ends : \A j \in ends : i <= j) - 1
    IN SubSeq(s, from, stop)

----------------------------------------------------------------------------
(* Point ids *)

\* One round of hash = ((hash << 5) - hash) + char; hash = hash & hash, on the
\* 32-bit value kept as two 16-bit halves <<hi, lo>>.
HashRound(h, c) ==
    LET lo == h[2] * 31 + c
        hi == h[1] * 31 + (lo \div 65536)
    IN <<hi % 65536, lo % 65536>>

RECURSIVE HashFrom(_, _, _)
HashFrom(h, s, i) ==
    IF i > Len(s) THEN h ELSE HashFrom(HashRound(h, s[i]), s, i + 1)

\* Math.abs of the signed 32-bit value <<hi, lo>>
AbsInt32(h) ==
    IF h[1] < 32768 THEN h
    ELSE <<65535 - h[1] + (IF h[2] = 0 THEN 1 ELSE 0), (65536 - h[2]) % 65536>>

\* QdrantWrapper.generatePointId: hash of `${url}:${chunkIndex}`
generatePointId(url, chunkIndex) ==
    LET str == url \o <<58, 48 + chunkIndex>>
        a == AbsInt32(HashFrom(<<0, 0>>, str, 1))
    IN [kind |-> "hash", hi |-> a[1], lo |-> a[2]]

\* AddDocumentationHandler.generatePointId: 16 random bytes, here the n-th draw
RandomPointId(n) == [kind |-> "rand", hi |-> 0, lo |-> n]

----------------------------------------------------------------------------
(* Embedding providers *)

Providers == {"ollama", "openai"}

\* EmbeddingService.getVectorSize: nomic-embed-text 768, text-embedding-3-small 1536
getVectorSize(p) == IF p = "ollama" THEN 768 ELSE 1536

\* QdrantWrapper.vectorSize
WrapperVectorSize == 768

----------------------------------------------------------------------------
(* The vector store, as the calls of the program see it *)

NoColl == [exists |-> FALSE, size |-> 0, distance |-> "none", indexes |-> {}]

NewColl(size) == [exists |-> TRUE, size |-> size, distance |-> "Cosine", indexes |-> {}]

Store(c, p) == [coll |-> c, points |-> p]

Reply(err, st) == [err |-> err, st |-> st]

\* createCollection: the store refuses to create a collection that exists
StoreCreateCollection(st, size) ==
    IF st.coll.exists THEN Reply("conflict", st)
    ELSE Reply("none", Store(NewColl(size), {}))

\* deleteCollection: drops the collection with every record in it
StoreDeleteCollection(st) == Reply("none", Store(NoColl, {}))

\* createPayloadIndex
StoreCreatePayloadIndex(st, field) ==
    IF ~st.coll.exists THEN Reply("notfound", st)
    ELSE Reply("none",
               Store([st.coll EXCEPT !.indexes = @ \cup {field}], st.points))

\* upsert: replaces the records with the same ids; the store refuses vectors
\* whose dimensionality is not the collection's
StoreUpsert(st, pts) ==
    IF ~st.coll.exists THEN Reply("notfound", st)
    ELSE IF \E p \in pts : p.dim # st.coll.size THEN Reply("baddim", st)
    ELSE Reply("none",
               Store(st.coll,
                     {q \in st.points : \A p \in pts : p.id # q.id} \cup pts))

\* delete with the filter url = u
StoreDeleteByUrl(st, u) ==
    IF ~st.coll.exists THEN Reply("notfound", st)
    ELSE Reply("none", Store(st.coll, {q \in st.points : q.url # u}))

----------------------------------------------------------------------------
(* Collection initialisation, one store request per step.  A call is       *)
(* [pc, req, err, reqs, steps]: its position, the vector size it requires, *)
(* the error it ended with ("none" while running or on success), the       *)
(* collection-changing requests it has issued and the number of store      *)
(* requests it has made.                                                   *)

FaultKinds == {"unauthorized", "ECONNREFUSED"}

Call(pc, req) == [pc |-> pc, req |-> req, err |-> "none", reqs |-> {}, steps |-> 0]

Goto(cs, pc) == [cs EXCEPT !.pc = pc]

Issued(cs, r) == [cs EXCEPT !.reqs = @ \cup {r}]

\* ApiClient.initCollection, catch block: the error the caller sees
ClassifyInitError(e) ==
    IF e = "unauthorized" THEN "AuthenticationError"
    ELSE IF e = "ECONNREFUSED" THEN "ConnectivityError"
    ELSE "StoreError"

ThrowApi(cs, e) == [cs EXCEPT !.pc = "done", !.err = ClassifyInitError(e)]

\* QdrantWrapper.initializeCollection, catch block
ThrowWrapper(cs, e) == [cs EXCEPT !.pc = "done", !.err = "QdrantError"]

Step(cs, st) == [cs |-> cs, st |-> st]

NeedsRecreateNever(currentVectorSize, requiredVectorSize) == FALSE

NeedsRecreateAlways(currentVectorSize, requiredVectorSize) == TRUE

\* ApiClient.initCollection: the collection is recreated when its vector size
\* is unreadable or differs from the required one
NeedsRecreate(currentVectorSize, requiredVectorSize) ==
    currentVectorSize = 0 \/ currentVectorSize # requiredVectorSize

\* ApiClient.initCollection with createCollection and recreateCollection
ApiInitStep(cs, st, fault) ==
    CASE cs.pc = "getCollections" ->
            IF fault # "none" THEN Step(ThrowApi(cs, fault), st)
            ELSE IF ~st.coll.exists THEN Step(Goto(cs, "createCollection"), st)
            ELSE Step(Goto(cs, "getCollection"), st)
      [] cs.pc = "getCollection" ->
            IF fault # "none" THEN Step(ThrowApi(cs, fault), st)
            ELSE IF ~st.coll.exists THEN Step(ThrowApi(cs, "notfound"), st)
            ELSE IF NeedsRecreate(st.coll.size, cs.req)
                 THEN Step(Goto(cs, "deleteCollection"), st)
            ELSE Step(Goto(cs, "done"), st)
      [] cs.pc = "deleteCollection" ->
            IF fault # "none" THEN Step(ThrowApi(cs, fault), st)
            ELSE Step(Goto(Issued(cs, "deleteCollection"), "createCollection"),
                      StoreDeleteCollection(st).st)
      [] cs.pc = "createCollection" ->
            LET r == StoreCreateCollection(st, cs.req) IN
            IF fault # "none" THEN Step(ThrowApi(cs, fault), st)
            ELSE IF r.err # "none" THEN Step(ThrowApi(Issued(cs, "createCollection"), r.err), st)
            ELSE Step(Goto(Issued(cs, "createCollection"), "indexUrl"), r.st)
      [] cs.pc = "indexUrl" ->
            LET r == StoreCreatePayloadIndex(st, "url") IN
            IF fault # "none" THEN Step(ThrowApi(cs, fault), st)
            ELSE IF r.err # "none" THEN Step(ThrowApi(Issued(cs, "createPayloadIndex"), r.err), st)
            ELSE Step(Goto(Issued(cs, "createPayloadIndex"), "indexTimestamp"), r.st)
      [] cs.pc = "indexTimestamp" ->
            LET r == StoreCreatePayloadIndex(st, "timestamp") IN
            IF fault # "none" THEN Step(ThrowApi(cs, fault), st)
            ELSE IF r.err # "none" THEN Step(ThrowApi(Issued(cs, "createPayloadIndex"), r.err), st)
            ELSE Step(Goto(Issued(cs, "createPayloadIndex"), "done"), r.st)

\* QdrantWrapper.initializeCollection
WrapperInitStep(cs, st, fault) ==
    CASE cs.pc = "w_getCollections" ->
            IF fault # "none" THEN Step(ThrowWrapper(cs, fault), st)
            ELSE IF ~st.coll.exists THEN Step(Goto(cs, "w_createCollection"), st)
            ELSE Step(Goto(cs, "done"), st)
      [] cs.pc = "w_createCollection" ->
            LET r == StoreCreateCollection(st, cs.req) IN
            IF fault # "none" THEN Step(ThrowWrapper(cs, fault), st)
            ELSE IF r.err # "none" THEN Step(ThrowWrapper(Issued(cs, "createCollection"), r.err), st)
            ELSE Step(Goto(Issued(cs, "createCollection"), "w_indexUrl"), r.st)
      [] cs.pc \in {"w_indexUrl", "w_indexDomain", "w_indexTimestamp"} ->
            LET field == CASE cs.pc = "w_indexUrl" -> "url"
                           [] cs.pc = "w_indexDomain" -> "domain"
                           [] OTHER -> "timestamp"
                next == CASE cs.pc = "w_indexUrl" -> "w_indexDomain"
                          [] cs.pc = "w_indexDomain" -> "w_indexTimestamp"
                          [] OTHER -> "done"
                r == StoreCreatePayloadIndex(st, field)
            IN
            IF fault # "none" THEN Step(ThrowWrapper(cs, fault), st)
            ELSE IF r.err # "none" THEN Step(ThrowWrapper(Issued(cs, "createPayloadIndex"), r.err), st)
            ELSE Step(Goto(Issued(cs, "createPayloadIndex"), next), r.st)

IsWrapperPc(pc) ==
    pc \in {"w_getCollections", "w_createCollection", "w_indexUrl",
            "w_indexDomain", "w_indexTimestamp"}

InitStep(cs, st, fault) ==
    IF IsWrapperPc(cs.pc) THEN WrapperInitStep(cs, st, fault)
    ELSE ApiInitStep(cs, st, fault)

\* A fault is [at, kind]: the at-th store request of the call fails (0: none)
NoFault == [at |-> 0, kind |-> "none"]
Faults(n) == {NoFault} \cup [at : 1..n, kind : FaultKinds]

\* A whole call, run to its end when nothing else interleaves
RECURSIVE RunInit(_, _, _)
RunInit(cs, st, fault) ==
    IF cs.pc = "done" THEN Step(cs, st)
    ELSE LET r == InitStep([cs EXCEPT !.steps = @ + 1], st,
                           IF fault.at = 1 THEN fault.kind ELSE "none")
         IN RunInit(r.cs, r.st, [fault EXCEPT !.at = @ - 1])

initCollection(requiredVectorSize, st, fault) ==
    RunInit(Call("getCollections", requiredVectorSize), st, fault)

initializeCollection(st, fault) ==
    RunInit(Call("w_getCollections", WrapperVectorSize), st, fault)

----------------------------------------------------------------------------
(* Records and the document operations of QdrantWrapper and ApiClient *)

NoString == <<>>     \* an absent (undefined) string field
NoNumber == -1       \* an absent (undefined) numeric field

Point(id, url, domain, chunkIndex, totalChunks, dim) ==
    [id |-> id, url |-> url, domain |-> domain, chunkIndex |-> chunkIndex,
     totalChunks |-> totalChunks, dim |-> dim]

HasUrl(st, url) == \E q \in st.points : q.url = url

\* QdrantWrapper.validateUrl
validateUrl(url) == ParsesAsUrl(url)

\* QdrantWrapper.documentExists: [err, exists]
documentExists(url, st, fault) ==
    IF ~validateUrl(url) THEN [err |-> "invalidUrl", exists |-> FALSE]
    ELSE IF fault \/ ~st.coll.exists THEN [err |-> "store", exists |-> FALSE]
    ELSE [err |-> "none", exists |-> HasUrl(st, url)]

\* QdrantWrapper.storeDocumentChunks for the chunks 0..n-1 of one document
storeDocumentChunks(url, domain, n, dim, st, fault) ==
    LET pts == {Point(generatePointId(url, i), url, domain, i, n, dim) : i \in 0..(n - 1)}
    IN IF fault THEN Reply("store", st) ELSE StoreUpsert(st, pts)

RemoveOnlyCanonical(url, st, fault) ==
    IF ~validateUrl(url) THEN Reply("invalidUrl", st)
    ELSE IF fault THEN Reply("store", st)
    ELSE IF ~st.coll.exists THEN Reply("notfound", st)
    ELSE Reply("none", Store(st.coll, {q \in st.points : ~(q.url = url /\ q.chunkIndex = 0)}))

\* QdrantWrapper.removeDocument
removeDocument(url, st, fault) ==
    IF ~validateUrl(url) THEN Reply("invalidUrl", st)
    ELSE IF fault THEN Reply("store", st)
    ELSE StoreDeleteByUrl(st, url)

Result(err, cause, st, upsertDim) ==
    [err |-> err, cause |-> cause, st |-> st, upsertDim |-> upsertDim]

\* ApiClient.addDocument, the try block; faultAt: 1 the existence check, 2 the
\* embedding, 3 the upsert fails (0: none)
addDocumentTry(url, st, embeddingProvider, faultAt) ==
    LET ex == documentExists(url, st, faultAt = 1)
        dim == getVectorSize(embeddingProvider)
        up == storeDocumentChunks(url, Hostname(url), 1, dim, st, faultAt = 3)
    IN IF ex.err # "none" THEN Result("QdrantError", ex.err, st, 0)
       ELSE IF ex.exists THEN Result("InvalidRequest", "duplicate", st, 0)
       ELSE IF faultAt = 2 THEN Result("EmbeddingError", "embedding", st, 0)
       ELSE IF up.err # "none" THEN Result("QdrantError", up.err, st, dim)
       ELSE Result("none", "none", up.st, dim)

\* ApiClient.addDocument: the catch block rethrows whatever the try block
\* threw as McpError(InternalError, "Failed to add document: ...")
addDocument(url, st, embeddingProvider, faultAt) ==
    LET r == addDocumentTry(url, st, embeddingProvider, faultAt)
    IN IF r.err = "none" THEN r ELSE [r EXCEPT !.err = "InternalError"]

\* ApiClient.addDocument, one awaited request per step.  A call in flight is
\* [pc, url, err, cause, stored]: its position, its url, the error it ended
\* with, and whether the url had a record when the call was made.
AddCall(url, st) ==
    [pc |-> "documentExists", url |-> url, err |-> "none", cause |-> "none",
     stored |-> HasUrl(st, url)]

\* the catch block: whatever was thrown ends the call as InternalError
AddThrow(c, cause) == [c EXCEPT !.pc = "done", !.err = "InternalError", !.cause = cause]

AddStep(c, st, embeddingProvider) ==
    CASE c.pc = "documentExists" ->
            LET ex == documentExists(c.url, st, FALSE) IN
            IF ex.err # "none" THEN Step(AddThrow(c, ex.err), st)
            ELSE IF ex.exists THEN Step(AddThrow(c, "duplicate"), st)
            ELSE Step([c EXCEPT !.pc = "generateEmbeddings"], st)
      [] c.pc = "generateEmbeddings" ->
            Step([c EXCEPT !.pc = "storeDocumentChunks"], st)
      [] c.pc = "storeDocumentChunks" ->
            LET up == storeDocumentChunks(c.url, Hostname(c.url), 1,
                                          getVectorSize(embeddingProvider), st, FALSE)
            IN IF up.err # "none" THEN Step(AddThrow(c, up.err), st)
               ELSE Step([c EXCEPT !.pc = "done"], up.st)

\* ApiClient.deleteDocument
deleteDocument(url, st, fault) ==
    LET r == removeDocument(url, st, fault)
    IN IF r.err # "none" THEN Result("InternalError", r.err, st, 0)
       ELSE Result("none", "none", r.st, 0)

----------------------------------------------------------------------------
(* AddDocumentationHandler: chunks of the fetched content, embedded with   *)
(* the server's provider and upserted in batches under random ids          *)

BATCH_SIZE == 100

RandIds(st) == {q.id.lo : q \in {x \in st.points : x.id.kind = "rand"}}

\* the ids of `size` new records: random ids never collide, here the lowest
\* ids that no stored record uses
FreshIds(used, size) ==
    LET free == (1..(Cardinality(used) + size)) \ used
    IN {m \in free : Cardinality({j \in free : j < m}) < size}

Min(a, b) == IF a < b THEN a ELSE b

WholeRest(n, i) == n - i

\* chunks.slice(i, i + BATCH_SIZE): the number of chunks of the batch at offset i
BatchSize(n, i) == Min(BATCH_SIZE, n - i)

\* the outcome of the handler; upserts lists the sizes of the batches whose
\* upsert was requested, in order
HandlerResult(err, cause, st, upsertDim, upserts) ==
    [err |-> err, cause |-> cause, st |-> st, upsertDim |-> upsertDim,
     upserts |-> upserts]

\* the loop over the batches, from chunk offset i; fault is [at, kind] with at
\* the batch whose embedding ("embed") or upsert ("upsert") fails
RECURSIVE HandlerBatches(_, _, _, _, _, _, _)
HandlerBatches(url, n, i, dim, st, fault, upserts) ==
    IF i >= n THEN HandlerResult("none", "none", st, dim, upserts)
    ELSE LET batchNo == (i \div BATCH_SIZE) + 1
             size == BatchSize(n, i)
             used == RandIds(st)
             pts == {Point(RandomPointId(m), url, NoString, NoNumber, NoNumber, dim) :
                        m \in FreshIds(used, size)}
             up == IF fault.at = batchNo /\ fault.kind = "upsert"
                   THEN Reply("store", st) ELSE StoreUpsert(st, pts)
         IN IF fault.at = batchNo /\ fault.kind = "embed"
            THEN HandlerResult("isError", "embedding", st, 0, upserts)
            ELSE IF up.err # "none"
            THEN HandlerResult("InternalError", up.err, st, dim, Append(upserts, size))
            ELSE HandlerBatches(url, n, i + BATCH_SIZE, dim, up.st, fault,
                                Append(upserts, size))

\* AddDocumentationHandler.handle; n is the number of chunks the content
\* splits into, fetchFails a failure of fetchAndProcessUrl
addDocumentation(url, n, st, embeddingProvider, fetchFails, fault) ==
    IF url = NoString THEN HandlerResult("InvalidParams", "url", st, 0, <<>>)
    ELSE IF fetchFails THEN HandlerResult("InternalError", "fetch", st, 0, <<>>)
    ELSE HandlerBatches(url, n, 0, getVectorSize(embeddingProvider), st, fault, <<>>)

NumBatches(n) == (n + BATCH_SIZE - 1) \div BATCH_SIZE

BatchFaults(n) == {NoFault} \cup [at : 1..NumBatches(n), kind : {"embed", "upsert"}]

----------------------------------------------------------------------------
(* The search front end.  An optional value is <<>> (undefined) or <<v>>.  *)
(* Scores and thresholds are in tenths; normalized scores in twentieths.   *)

Undefined == <<>>
Given(x) == x # <<>>
Val(x) == x[1]

\* Date.parse(s) is NaN
DateParseIsNaN(s) == s \notin {"2024-01-01T00:00:00Z"}

\* JavaScript truthiness of a string
TruthyString(s) == s # ""

\* validateSearchOptions: the message of the McpError(InvalidRequest) it throws
validateSearchOptions(options) ==
    IF Given(options.limit) /\ (Val(options.limit) < 1 \/ Val(options.limit) > 20)
    THEN "Limit must be between 1 and 20"
    ELSE IF Given(options.scoreThreshold)
            /\ (Val(options.scoreThreshold) < 0 \/ Val(options.scoreThreshold) > 10)
    THEN "Score threshold must be between 0 and 1"
    ELSE IF Given(options.after) /\ TruthyString(Val(options.after))
            /\ DateParseIsNaN(Val(options.after))
    THEN "Invalid after date format"
    ELSE IF Given(options.before) /\ TruthyString(Val(options.before))
            /\ DateParseIsNaN(Val(options.before))
    THEN "Invalid before date format"
    ELSE "none"

NoOptions ==
    [limit |-> Undefined, scoreThreshold |-> Undefined, after |-> Undefined,
     before |-> Undefined, domain |-> Undefined, hasCode |-> Undefined]

\* the store's nearest-neighbour search over the candidates that pass the
\* filter, best first: at most `limit` of those scoring at least the threshold
RECURSIVE SelectHits(_, _)
SelectHits(cands, threshold) ==
    IF cands = <<>> THEN <<>>
    ELSE IF Head(cands).score >= threshold
         THEN <<Head(cands)>> \o SelectHits(Tail(cands), threshold)
         ELSE SelectHits(Tail(cands), threshold)

StoreSearch(cands, limit, threshold) ==
    LET hits == SelectHits(cands, threshold)
    IN SubSeq(hits, 1, Min(limit, Len(hits)))

\* the hits of a response, each tagged with its rank in the response
Ranked(hits) == [i \in 1..Len(hits) |-> [id |-> i, score |-> hits[i].score,
                                         payload |-> hits[i].payload]]

\* limit: Math.ceil(limit * 1.5)
QueryLimit(limit) == (3 * limit + 1) \div 2

DropFirst(mapped, limit) ==
    IF Len(mapped) > limit THEN SubSeq(mapped, 2, limit + 1)
    ELSE SubSeq(mapped, 1, Min(limit, Len(mapped)))

\* .slice(0, limit)
SliceToLimit(mapped, limit) == SubSeq(mapped, 1, Min(limit, Len(mapped)))

\* QdrantWrapper.searchSimilar: the query it sends and what it returns
searchSimilar(o, cands, fault) ==
    LET limit == IF Given(o.limit) /\ Val(o.limit) # 0 THEN Val(o.limit) ELSE 5
        scoreThreshold == IF Given(o.scoreThreshold) /\ Val(o.scoreThreshold) # 0
                          THEN Val(o.scoreThreshold) ELSE 7
        filter == (IF Given(o.domain) /\ TruthyString(Val(o.domain)) THEN {"domain"} ELSE {})
             \cup (IF Given(o.hasCode) THEN {"hasCode"} ELSE {})
             \cup (IF Given(o.after) /\ TruthyString(Val(o.after)) THEN {"after"} ELSE {})
             \cup (IF Given(o.before) /\ TruthyString(Val(o.before)) THEN {"before"} ELSE {})
        qLimit == QueryLimit(limit)
        response == Ranked(StoreSearch(cands, qLimit, scoreThreshold))
        mapped == [i \in 1..Len(response) |->
                      [id |-> response[i].id,
                       score |-> response[i].score,
                       fields |-> IF response[i].payload = "ok" THEN "ok" ELSE "undefined"]]
        q == [qLimit |-> qLimit, qThreshold |-> scoreThreshold, qFilter |-> filter]
    IN IF fault THEN [err |-> "QdrantError", q |-> q, response |-> <<>>, results |-> <<>>]
       ELSE IF \E i \in 1..Len(response) : response[i].payload = "null"
       THEN [err |-> "QdrantError", q |-> q, response |-> response, results |-> <<>>]
       ELSE [err |-> "none", q |-> q, response |-> response,
             results |-> SliceToLimit(mapped, limit)]

\* normalizeScore, from tenths to twentieths: (score + 1) / 2
normalizeScore(score) == score + 10

\* String.prototype.trim of a string of character codes leaves it non-empty
TrimsToNonEmpty(q) == \E i \in 1..Len(q) : q[i] \notin {32, 9, 10, 13}

NoSearch ==
    [pc |-> "none", query |-> Undefined, options |-> Undefined,
     err |-> "none", cause |-> "none", embedded |-> FALSE, queried |-> FALSE,
     q |-> [qLimit |-> 0, qThreshold |-> 0, qFilter |-> {}],
     cands |-> <<>>, response |-> <<>>, results |-> <<>>]

\* SearchDocumentationHandler.handle; faultAt: 1 the embedding, 2 the store
\* search fails (0: none)
searchDocumentation(req, cands, faultAt) ==
    LET o == IF Given(req.options) THEN Val(req.options) ELSE NoOptions
        v == IF Given(req.options) THEN validateSearchOptions(Val(req.options)) ELSE "none"
        r == searchSimilar(o, cands, faultAt = 2)
        done == [req EXCEPT !.pc = "done"]
    IN IF ~(Given(req.query) /\ TrimsToNonEmpty(Val(req.query)))
       THEN [done EXCEPT !.err = "InvalidRequest", !.cause = "Query string is required"]
       ELSE IF v # "none"
       THEN [done EXCEPT !.err = "InvalidRequest", !.cause = v]
       ELSE IF faultAt = 1
       THEN [done EXCEPT !.err = "InternalError", !.cause = "embedding", !.embedded = TRUE]
       ELSE [done EXCEPT !.err = IF r.err = "none" THEN "none" ELSE "InternalError",
                         !.cause = r.err, !.embedded = TRUE, !.queried = TRUE,
                         !.q = r.q, !.cands = cands, !.response = r.response,
                         !.results = [i \in 1..Len(r.results) |->
                                        [r.results[i] EXCEPT !.score = normalizeScore(@)]]]

----------------------------------------------------------------------------
(* Listing.  The store's scroll is taken to skip `offset` records, as the  *)
(* code assumes; the canonical records are numbered 1..count in its order. *)

Max(a, b) == IF a > b THEN a ELSE b

\* Math.ceil(a / b) for a >= 0, b > 0
CeilDiv(a, b) == (a + b - 1) \div b

\* ListUtils.getPaginationDetails
getPaginationDetails(total, page, pageSize) ==
    LET totalPages == CeilDiv(total, pageSize)
        currentPage == Min(Max(1, page), totalPages)
    IN [offset |-> (currentPage - 1) * pageSize, limit |-> pageSize,
        totalPages |-> totalPages]

\* QdrantWrapper.listDocuments: count, then scroll; the store rejects a
\* negative offset
listDocuments(offset, limit, count, fault) ==
    LET qLimit == IF limit # 0 THEN limit ELSE 20
        qOffset == offset
    IN IF fault \/ qOffset < 0
       THEN [err |-> "QdrantError", total |-> 0, qOffset |-> qOffset, documents |-> {}]
       ELSE [err |-> "none", total |-> count, qOffset |-> qOffset,
             documents |-> {i \in 1..count : qOffset < i /\ i <= qOffset + qLimit}]

NoListing ==
    [pc |-> "none", page |-> Undefined, pageSize |-> Undefined, err |-> "none",
     count |-> 0, total |-> 0, shownPage |-> 0, shownPageSize |-> 0,
     totalPages |-> 0, qOffset |-> 0, offset |-> 0, documents |-> {}]

\* ListDocumentationHandler.handle after initializeCollection; count is the
\* number of records with chunkIndex = 0 the store holds.  qOffset is the
\* offset sent to the store, offset the one getPaginationDetails computes
listDocumentation(req, count, fault) ==
    LET page == IF Given(req.page) /\ Val(req.page) # 0 THEN Val(req.page) ELSE 1
        pageSize == IF Given(req.pageSize) /\ Val(req.pageSize) # 0
                    THEN Val(req.pageSize) ELSE 20
        r == listDocuments((page - 1) * pageSize, pageSize, count, fault)
        details == getPaginationDetails(r.total, page, pageSize)
        done == [req EXCEPT !.pc = "done", !.count = count, !.qOffset = r.qOffset]
    IN IF r.err # "none" THEN [done EXCEPT !.err = "isError"]
       ELSE [done EXCEPT !.total = r.total, !.shownPage = page,
                         !.shownPageSize = pageSize,
                         !.totalPages = details.totalPages,
                         !.offset = details.offset,
                         !.documents = r.documents]

----------------------------------------------------------------------------
(* The chunker.  Two TextChunker classes are in the repository: the plain  *)
(* one (chunkTextPlain) and the file-type aware one (chunkTextTyped).      *)
(* Texts are sequences of character codes.                                 *)

\* \s of a JavaScript regular expression, for the characters used
IsSpace(c) == c \in {9, 10, 11, 12, 13, 32}

\* the characters of the lookbehind (?<=\.|\?|\!|\n)
IsBoundary(c) == c \in {46, 63, 33, 10}

IsNewline(c) == c = 10

\* c is of the class a greedy run is made of: "space" \s, "newline" \n
InClass(c, class) == IF class = "space" THEN IsSpace(c) ELSE IsNewline(c)

\* the last index of the run of characters of the class that starts at i
RunEnd(s, i, class) ==
    CHOOSE j \in i..Len(s) :
        /\ \A k \in i..j : InClass(s[k], class)
        /\ j = Len(s) \/ ~InClass(s[j + 1], class)

\* the length of the separator that matches at position i (0: none):
\* "sentence" /(?<=\.|\?|\!|\n)\s+/, "words" /\s+/, "pages" /\f/,
\* "paragraphs" /\n{2,}/
MatchLen(s, i, sep) ==
    IF sep = "sentence"
    THEN IF i > 1 /\ IsBoundary(s[i - 1]) /\ IsSpace(s[i])
         THEN RunEnd(s, i, "space") - i + 1 ELSE 0
    ELSE IF sep = "words"
    THEN IF IsSpace(s[i]) THEN RunEnd(s, i, "space") - i + 1 ELSE 0
    ELSE IF sep = "pages"
    THEN IF s[i] = 12 THEN 1 ELSE 0
    ELSE IF IsNewline(s[i]) /\ RunEnd(s, i, "newline") > i
         THEN RunEnd(s, i, "newline") - i + 1 ELSE 0

\* String.prototype.split with a separator that cannot match the empty string
RECURSIVE SplitFrom(_, _, _, _)
SplitFrom(s, start, i, sep) ==
    IF i > Len(s) THEN <<SubSeq(s, start, Len(s))>>
    ELSE LET m == MatchLen(s, i, sep)
         IN IF m > 0
            THEN <<SubSeq(s, start, i - 1)>> \o SplitFrom(s, i + m, i + m, sep)
            ELSE SplitFrom(s, start, i + 1, sep)

Split(s, sep) == SplitFrom(s, 1, 1, sep)

\* String.prototype.trim
Trim(s) ==
    LET keep == {i \in 1..Len(s) : ~IsSpace(s[i])}
    IN IF keep = {} THEN <<>>
       ELSE SubSeq(s, CHOOSE i \in keep : \A j \in keep : i <= j,
                      CHOOSE i \in keep : \A j \in keep : i >= j)

\* Array.prototype.join(' ')
RECURSIVE Join(_)
Join(words) ==
    IF words = <<>> THEN <<>>
    ELSE IF Len(words) = 1 THEN words[1]
    ELSE words[1] \o <<32>> \o Join(Tail(words))

\* words.slice(-k) for k >= 0: slice(-0) is slice(0), the whole array
SliceLast(words, k) ==
    IF k = 0 THEN words
    ELSE SubSeq(words, Max(1, Len(words) - k + 1), Len(words))

\* options.overlapWords || Math.ceil(options.overlap / 10); the plain chunker
\* has no overlapWords
OverlapWordCount(options) ==
    IF Given(options.overlapWords) /\ Val(options.overlapWords) # 0
    THEN Val(options.overlapWords)
    ELSE CeilDiv(options.overlap, 10)

\* a TextChunk; trailing tells that it was pushed after the loop of
\* chunkSegment (the rest of the buffer), not by a flush inside it
Chunk(content, index, startPosition, endPosition, isCodeBlock, trailing) ==
    [content |-> content, index |-> index, startPosition |-> startPosition,
     endPosition |-> endPosition, isCodeBlock |-> isCodeBlock, trailing |-> trailing]

\* the blocks of a segment
Blocks(text, isCodeBlock) ==
    IF isCodeBlock THEN <<text>>
    ELSE LET pieces == SelectSeq(Split(text, "sentence"), LAMBDA b : b # <<>>)
         IN [i \in 1..Len(pieces) |-> Trim(pieces[i])]

\* the for loop of chunkSegment from block i on, and the push that follows it
RECURSIVE SegmentLoop(_, _, _, _, _, _, _)
SegmentLoop(blocks, i, options, startPosition, startIndex, isCodeBlock, acc) ==
    IF i > Len(blocks)
    THEN IF acc.currentChunk # <<>>
         THEN Append(acc.chunks,
                     Chunk(acc.currentChunk, startIndex + Len(acc.chunks),
                           startPosition + acc.currentPosition - Len(acc.currentChunk),
                           startPosition + acc.currentPosition, isCodeBlock, TRUE))
         ELSE acc.chunks
    ELSE LET block == blocks[i]
             cur == acc.currentChunk
             flush == /\ cur # <<>>
                      /\ Len(cur) + Len(block) > options.maxChunkSize
                      /\ Len(cur) >= options.minChunkSize
             next == IF flush
                     THEN [chunks |-> Append(acc.chunks,
                                Chunk(cur, startIndex + Len(acc.chunks),
                                      startPosition + acc.currentPosition - Len(cur),
                                      startPosition + acc.currentPosition, isCodeBlock,
                                      FALSE)),
                           currentChunk |->
                                Join(SliceLast(Split(cur, "words"), OverlapWordCount(options)))
                                    \o <<32>> \o block,
                           currentPosition |-> acc.currentPosition + Len(block) + 1]
                     ELSE [chunks |-> acc.chunks,
                           currentChunk |-> IF cur # <<>> THEN cur \o <<32>> \o block
                                            ELSE block,
                           currentPosition |-> acc.currentPosition + Len(block) + 1]
         IN SegmentLoop(blocks, i + 1, options, startPosition, startIndex, isCodeBlock, next)

\* TextChunker.chunkSegment (the same in both classes but for the overlap
\* word count)
chunkSegment(text, options, startPosition, startIndex, isCodeBlock) ==
    SegmentLoop(Blocks(text, isCodeBlock), 1, options, startPosition, startIndex,
                isCodeBlock,
                [chunks |-> <<>>, currentChunk |-> <<>>, currentPosition |-> 0])

\* the first index >= from where a ``` fence starts (0: none)
FenceAt(text, from) ==
    LET at == {i \in from..(Len(text) - 2) :
                    text[i] = 96 /\ text[i + 1] = 96 /\ text[i + 2] = 96}
    IN IF at = {} THEN 0 ELSE CHOOSE i \in at : \A j \in at : i <= j

Segment(content, isCodeBlock) == [content |-> content, isCodeBlock |-> isCodeBlock]

\* TextChunker.separateCodeBlocks: the matches of /```[\s\S]*?```/g and the
\* text between them
RECURSIVE separateFrom(_, _)
separateFrom(text, lastIndex) ==
    LET open == FenceAt(text, lastIndex)
        close == IF open = 0 THEN 0 ELSE FenceAt(text, open + 3)
    IN IF close = 0
       THEN IF lastIndex <= Len(text)
            THEN <<Segment(SubSeq(text, lastIndex, Len(text)), FALSE)>> ELSE <<>>
       ELSE (IF open > lastIndex
             THEN <<Segment(SubSeq(text, lastIndex, open - 1), FALSE)>> ELSE <<>>)
            \o <<Segment(SubSeq(text, open, close + 2), TRUE)>>
            \o separateFrom(text, close + 3)

separateCodeBlocks(text) == separateFrom(text, 1)

\* DEFAULT_OPTIONS of the two classes merged with the caller's options
NoChunkOptions ==
    [maxChunkSize |-> Undefined, minChunkSize |-> Undefined, overlap |-> Undefined,
     overlapWords |-> Undefined, respectCodeBlocks |-> Undefined, fileType |-> Undefined]

Default(x, d) == IF Given(x) THEN Val(x) ELSE d

MergePlain(o) ==
    [maxChunkSize |-> Default(o.maxChunkSize, 1000),
     minChunkSize |-> Default(o.minChunkSize, 100),
     overlap |-> Default(o.overlap, 200),
     overlapWords |-> Undefined,
     respectCodeBlocks |-> Default(o.respectCodeBlocks, TRUE),
     fileType |-> Undefined]

MergeTyped(o) ==
    [maxChunkSize |-> Default(o.maxChunkSize, 1000),
     minChunkSize |-> Default(o.minChunkSize, 100),
     overlap |-> Default(o.overlap, 200),
     overlapWords |-> IF Given(o.overlapWords) THEN o.overlapWords ELSE <<20>>,
     respectCodeBlocks |-> Default(o.respectCodeBlocks, TRUE),
     fileType |-> o.fileType]

\* TextChunker.validateOptions of the file-type aware class: the message of
\* the Error it throws
validateOptions(opts) ==
    IF opts.maxChunkSize < opts.minChunkSize
    THEN "maxChunkSize must be greater than minChunkSize"
    ELSE IF opts.overlap >= opts.maxChunkSize
    THEN "overlap must be less than maxChunkSize"
    ELSE IF opts.minChunkSize <= 0 \/ opts.maxChunkSize <= 0 \/ opts.overlap < 0
    THEN "chunk sizes and overlap must be positive numbers"
    ELSE "none"

\* the for loop of the plain chunkText
RECURSIVE PlainLoop(_, _, _, _, _, _)
PlainLoop(segments, i, opts, chunks, currentPosition, chunkIndex) ==
    IF i > Len(segments) THEN chunks
    ELSE LET segment == segments[i]
             n == Len(segment.content)
         IN IF /\ segment.isCodeBlock /\ opts.respectCodeBlocks
               /\ 2 * n <= 3 * opts.maxChunkSize
            THEN PlainLoop(segments, i + 1, opts,
                    Append(chunks, Chunk(segment.content, chunkIndex, currentPosition,
                                         currentPosition + n, TRUE, FALSE)),
                    currentPosition + n, chunkIndex + 1)
            ELSE LET segmentChunks == chunkSegment(segment.content, opts, currentPosition,
                                                   chunkIndex, segment.isCodeBlock)
                 IN PlainLoop(segments, i + 1, opts, chunks \o segmentChunks,
                              currentPosition + n, chunkIndex + Len(segmentChunks))

ChunkResult(err, chunks) == [err |-> err, chunks |-> chunks]

\* TextChunker.chunkText of the plain class: no validation of text or options
chunkTextPlain(text, options) ==
    ChunkResult("none",
        PlainLoop(separateCodeBlocks(text), 1, MergePlain(options), <<>>, 0, 0))

\* DefaultChunkingStrategy.chunk
DefaultChunk(text, opts) == chunkSegment(text, opts, 0, 0, FALSE)

\* PDFChunkingStrategy.chunk and DocxChunkingStrategy.chunk: the forEach over
\* the pages (gap 0) or the paragraphs (gap 2, blank ones skipped)
RECURSIVE PartsLoop(_, _, _, _, _, _)
PartsLoop(parts, i, opts, chunks, currentIndex, gap) ==
    IF i > Len(parts) THEN chunks
    ELSE IF gap = 2 /\ Trim(parts[i]) = <<>>
    THEN PartsLoop(parts, i + 1, opts, chunks, currentIndex, gap)
    ELSE PartsLoop(parts, i + 1, opts,
            chunks \o chunkSegment(parts[i], opts, currentIndex, Len(chunks), FALSE),
            currentIndex + Len(parts[i]) + gap, gap)

\* getChunkingStrategy(fileType).chunk(text, opts)
StrategyChunk(fileType, text, opts) ==
    IF fileType = "pdf" THEN PartsLoop(Split(text, "pages"), 1, opts, <<>>, 0, 0)
    ELSE IF fileType = "docx"
    THEN PartsLoop(Split(text, "paragraphs"), 1, opts, <<>>, 0, 2)
    ELSE DefaultChunk(text, opts)

\* the for loop of the file-type aware chunkText
RECURSIVE TypedLoop(_, _, _, _, _, _)
TypedLoop(segments, i, opts, fileType, chunks, currentPosition) ==
    IF i > Len(segments) THEN chunks
    ELSE LET segment == segments[i]
             segmentChunks ==
                IF segment.isCodeBlock
                THEN chunkSegment(segment.content, opts, currentPosition, Len(chunks), TRUE)
                ELSE StrategyChunk(fileType, segment.content, opts)
         IN TypedLoop(segments, i + 1, opts, fileType, chunks \o segmentChunks,
                      currentPosition + Len(segment.content))

\* TextChunker.chunkText of the file-type aware class
chunkTextTyped(text, options) ==
    LET opts == MergeTyped(options)
        v == validateOptions(opts)
        fileType == Default(opts.fileType, "text")
    IN IF Trim(text) = <<>> THEN ChunkResult("Text must be a non-empty string", <<>>)
       ELSE IF v # "none" THEN ChunkResult(v, <<>>)
       ELSE IF opts.respectCodeBlocks /\ opts.fileType \in {<<"text">>, <<"markdown">>}
       THEN ChunkResult("none",
                TypedLoop(separateCodeBlocks(text), 1, opts, fileType, <<>>, 0))
       ELSE ChunkResult("none", StrategyChunk(fileType, text, opts))

chunkText(impl, text, options) ==
    IF impl = "plain" THEN chunkTextPlain(text, options)
    ELSE chunkTextTyped(text, options)

NoChunking ==
    [pc |-> "none", impl |-> "plain", options |-> NoChunkOptions, text |-> <<>>,
     err |-> "none", chunks |-> <<>>]

----------------------------------------------------------------------------
(* AddDocumentationTool.addDocument: the ingestion path that replaces the  *)
(* stored version of a document                                            *)

\* String.prototype.toLowerCase, for the letters A-Z
ToLower(s) == [i \in 1..Len(s) |-> IF s[i] >= 65 /\ s[i] <= 90 THEN s[i] + 32 ELSE s[i]]

\* trimmedUrl.startsWith('http')
StartsWithHttp(s) == Len(s) >= 4 /\ SubSeq(s, 1, 4) = <<104, 116, 116, 112>>

\* "https://"
HttpsPrefix == <<104, 116, 116, 112, 115, 58, 47, 47>>

\* URLProcessor.normalizeURL of a parsed http(s) URL without port, query and
\* fragment: protocol, "//", the lower-case hostname and the path ("/" when
\* empty) without its trailing slash
normalizeURL(s) ==
    LET hostname == Hostname(s)
        from == CHOOSE i \in (ColonPos(s) + 1)..Len(s) :
                    ~IsSlash(s[i]) /\ \A j \in (ColonPos(s) + 1)..(i - 1) : IsSlash(s[j])
        rest == SubSeq(s, from + Len(hostname), Len(s))
        pathname == IF rest = <<>> THEN <<47>> ELSE rest
        path == IF Len(pathname) > 1 /\ pathname[Len(pathname)] = 47
                THEN SubSeq(pathname, 1, Len(pathname) - 1) ELSE pathname
    IN SubSeq(s, 1, ColonPos(s)) \o <<47, 47>> \o ToLower(hostname) \o path

\* URLProcessor.processURL: [err, normalizedUrl, domain]
processURL(urlString) ==
    LET trimmedUrl == Trim(urlString)
        urlWithProtocol == IF StartsWithHttp(trimmedUrl) THEN trimmedUrl
                           ELSE HttpsPrefix \o trimmedUrl
    IN IF ~ParsesAsUrl(urlWithProtocol)
       THEN [err |-> "URLProcessingError", normalizedUrl |-> NoString, domain |-> NoString]
       ELSE [err |-> "none", normalizedUrl |-> normalizeURL(urlWithProtocol),
             domain |-> ToLower(Hostname(urlWithProtocol))]

\* the vectors of text-embedding-ada-002 have 1536 components
ToolVectorSize == 1536

\* the awaited steps of AddDocumentationTool.addDocument, in order
ToolSteps ==
    <<"health_check", "initializeCollection", "documentExists", "removeDocument",
      "fetchContent", "chunkText", "embedding_generation", "storeDocumentChunks">>

\* from the fetch on: fetchContent, chunkText, generateEmbeddings and
\* storeDocumentChunks, the stored version already removed
ToolIngest(u, domain, n, st, failing) ==
    LET up == storeDocumentChunks(u, domain, n, ToolVectorSize, st,
                                  failing = "storeDocumentChunks")
    IN IF failing = "fetchContent"
       THEN Result("ContentFetchError", "fetchContent", st, 0)
       ELSE IF failing = "chunkText"
       THEN Result("AddDocumentationError", "chunkText", st, 0)
       ELSE IF failing = "embedding_generation"
       THEN Result("AddDocumentationError", "embedding_generation", st, 0)
       ELSE IF up.err # "none"
       THEN Result("QdrantError", "storeDocumentChunks", up.st, ToolVectorSize)
       ELSE Result("none", "none", up.st, ToolVectorSize)

\* from the existence check on: the stored version is removed before the
\* new one is fetched
ToolReplace(u, domain, n, st, failing) ==
    LET ex == documentExists(u, st, failing = "documentExists")
        rm == removeDocument(u, st, failing = "removeDocument")
    IN IF ex.err # "none" THEN Result("QdrantError", "documentExists", st, 0)
       ELSE IF ~ex.exists THEN ToolIngest(u, domain, n, st, failing)
       ELSE IF rm.err # "none" THEN Result("QdrantError", "removeDocument", st, 0)
       ELSE ToolIngest(u, domain, n, rm.st, failing)

\* from URLProcessor.processURL on
ToolProcess(processedUrl, n, st, failing) ==
    IF processedUrl.err # "none"
    THEN Result("URLProcessingError", "processURL", st, 0)
    ELSE ToolReplace(processedUrl.normalizedUrl, processedUrl.domain, n, st, failing)

\* from initializeCollection on
ToolInit(url, n, init, failing) ==
    IF init.cs.err # "none"
    THEN Result("QdrantError", "initializeCollection", init.st, 0)
    ELSE ToolProcess(processURL(url), n, init.st, failing)

\* AddDocumentationTool.addDocument; n is the number of chunks of the fetched
\* content, failing the step that fails ("none": no step does)
toolAddDocument(url, n, st, failing) ==
    IF failing = "health_check"
    THEN Result("AddDocumentationError", "health_check", st, 0)
    ELSE ToolInit(url, n,
                  initializeCollection(st, IF failing = "initializeCollection"
                                           THEN [at |-> 1, kind |-> "ECONNREFUSED"]
                                           ELSE NoFault),
                  failing)

----------------------------------------------------------------------------
(* Content fetching with retries: FileContentFetcher.fetchRemoteFile (via  *)
(* retryOperation), FileContentFetcher.fetchLocalFile and                  *)
(* ContentFetcher.fetchContent.  A fetch is [pc, kind, retries, lastError, *)
(* log, outcome, surfaced, wrapped]: log lists the results of its attempts *)
(* in order, surfaced is the error of the attempt that the thrown error    *)
(* carries, wrapped tells that it is carried inside a new error's message. *)

MAX_RETRIES == 3

FetchKinds == {"remote", "local", "page"}

\* what one attempt ends with: success, a failure that is retried, or the
\* failure the code gives up on at once (ENOENT, HTTP 404)
AttemptResults == {"ok", "ETIMEDOUT", "ECONNRESET", "unsupported", "notFound"}

NoFetch ==
    [pc |-> "none", kind |-> "none", retries |-> 0, lastError |-> "none",
     log |-> <<>>, outcome |-> "none", surfaced |-> "none", wrapped |-> FALSE]

RetryOnceMore(retries) == retries <= MAX_RETRIES

\* retries < this.MAX_RETRIES
ShouldRetry(retries) == retries < MAX_RETRIES

\* 'File not found' of the file fetchers, 'Page not found' of the page fetcher
NotFoundMessage(kind) == IF kind = "page" THEN "Page not found" ELSE "File not found"

\* the throw after the loop: retryOperation throws lastError itself, the
\* other two a new error "Failed to fetch content after 3 attempts: <message>"
Exhausted(f) ==
    [f EXCEPT !.pc = "done", !.outcome = "error", !.surfaced = f.lastError,
              !.wrapped = (f.kind # "remote")]

\* the head of the while loop
LoopHead(f) ==
    IF ShouldRetry(f.retries) THEN [f EXCEPT !.pc = "attempt"] ELSE Exhausted(f)

\* the try block returned
Succeeded(f) == [f EXCEPT !.pc = "done", !.log = Append(@, "ok"), !.outcome = "ok"]

\* the catch block
Failed(f, error) ==
    LET g == [f EXCEPT !.lastError = error, !.log = Append(@, error)]
        h == [g EXCEPT !.retries = @ + 1]
    IN IF error = "notFound"
       THEN [g EXCEPT !.pc = "done", !.outcome = "error",
                      !.surfaced = NotFoundMessage(f.kind)]
       ELSE IF ShouldRetry(h.retries) THEN [h EXCEPT !.pc = "delay"]
       ELSE LoopHead(h)

----------------------------------------------------------------------------
(* The server: start-up and its request handlers, each a whole call *)

NoOutcome ==
    [op |-> "none", url |-> NoString, err |-> "none", cause |-> "none",
     faulted |-> FALSE, existed |-> FALSE, afterDelete |-> FALSE, wrote |-> {},
     changed |-> FALSE,
     upsertDim |-> 0, collSizeAtWrite |-> 0,
     initOk |-> FALSE, active |-> 0, req |-> 0, reqs |-> {}, again |-> FALSE,
     preSize |-> NoNumber, hadPoints |-> FALSE, total |-> 0,
     chunks |-> 0, upserts |-> <<>>]

Started(op) == [NoOutcome EXCEPT !.op = op]

SizeOf(c) == IF c.exists THEN c.size ELSE NoNumber

\* the ids that a call stored: the records it left that were not there before
Wrote(before, after) == {q.id : q \in after \ before}

InitColls ==
    {NoColl} \cup
    {[NewColl(s) EXCEPT !.indexes = {"url", "timestamp"}] : s \in {0, 768, 1536}}

Init ==
    /\ coll \in InitColls
    /\ points = {}
    /\ provider \in Providers
    /\ phase = "boot"
    /\ last = NoOutcome
    /\ callers = <<>>
    /\ search = NoSearch
    /\ listing = NoListing
    /\ chunking = NoChunking
    /\ fetching = NoFetch

\* server start-up: client.qdrant.initializeCollection(); a failure ends the process
ServerStartup(fault) ==
    /\ phase = "boot"
    /\ LET r == initializeCollection(Store(coll, points), fault) IN
        /\ fault.at <= r.cs.steps
        /\ coll' = r.st.coll
        /\ points' = r.st.points
        /\ phase' = IF r.cs.err = "none" THEN "serving" ELSE "crashed"
        /\ last' = [Started("startup") EXCEPT
                        !.err = r.cs.err, !.faulted = (fault.at > 0),
                        !.changed = (r.st # Store(coll, points)),
                        !.initOk = (r.cs.err = "none"),
                        !.active = getVectorSize(provider),
                        !.req = r.cs.req, !.reqs = r.cs.reqs]
    /\ UNCHANGED <<provider, callers, search, listing, chunking, fetching>>

\* TestEmbeddingsHandler.handle: a new ApiClient for the requested provider
\* runs initCollection; the server's own client is left as it was.
\* stage: "noText" (args.text missing), "embedFails" (the trial embedding
\* fails) or "run"
TestEmbeddings(p, stage, fault) ==
    /\ phase = "serving"
    /\ LET r == initCollection(getVectorSize(p), Store(coll, points), fault)
           o == Started("testEmbeddings")
       IN
        IF stage = "noText"
        THEN /\ fault = NoFault
             /\ last' = [o EXCEPT !.err = "InvalidParams"]
             /\ UNCHANGED <<coll, points>>
        ELSE IF stage = "embedFails"
        THEN /\ fault = NoFault
             /\ last' = [o EXCEPT !.err = "isError", !.cause = "embedding",
                                  !.faulted = TRUE]
             /\ UNCHANGED <<coll, points>>
        ELSE /\ fault.at <= r.cs.steps
             /\ coll' = r.st.coll
             /\ points' = r.st.points
             /\ last' = [o EXCEPT
                            !.err = IF r.cs.err = "none" THEN "none" ELSE "isError",
                            !.cause = r.cs.err,
                            !.faulted = (fault.at > 0),
                            !.changed = (r.st # Store(coll, points)),
                            !.initOk = (r.cs.err = "none"),
                            !.active = getVectorSize(p),
                            !.req = r.cs.req, !.reqs = r.cs.reqs,
                            !.again = (last.op = "testEmbeddings" /\ last.initOk
                                       /\ last.req = r.cs.req),
                            !.preSize = SizeOf(coll),
                            !.hadPoints = (points # {})]
    /\ UNCHANGED <<provider, phase, callers, search, listing, chunking, fetching>>

\* the add_document tool: client.addDocument(doc)
AddDocument(url, faultAt) ==
    /\ phase = "serving"
    /\ LET r == addDocument(url, Store(coll, points), provider, faultAt) IN
        /\ faultAt > 0 => r.cause \in {"store", "embedding"}
        /\ coll' = r.st.coll
        /\ points' = r.st.points
        /\ last' = [Started("addDocument") EXCEPT
                        !.url = url, !.err = r.err, !.cause = r.cause,
                        !.faulted = (faultAt > 0),
                        !.existed = HasUrl(Store(coll, points), url),
                        !.afterDelete = (/\ last.op = "deleteDocument"
                                         /\ last.url = url
                                         /\ last.existed
                                         /\ last.err = "none"),
                        !.wrote = Wrote(points, r.st.points),
                        !.changed = (r.st # Store(coll, points)),
                        !.upsertDim = r.upsertDim,
                        !.collSizeAtWrite = SizeOf(coll)]
    /\ UNCHANGED <<provider, phase, callers, search, listing, chunking, fetching>>

\* the delete_document tool: client.deleteDocument(url)
DeleteDocument(url, fault) ==
    /\ phase = "serving"
    /\ LET r == deleteDocument(url, Store(coll, points), fault) IN
        /\ fault => r.cause = "store"
        /\ coll' = r.st.coll
        /\ points' = r.st.points
        /\ last' = [Started("deleteDocument") EXCEPT
                        !.url = url, !.err = r.err, !.cause = r.cause,
                        !.faulted = fault,
                        !.changed = (r.st # Store(coll, points)),
                        !.existed = HasUrl(Store(coll, points), url)]
    /\ UNCHANGED <<provider, phase, callers, search, listing, chunking, fetching>>

\* AddDocumentationHandler.handle: what it leaves in the store and reports
Handled(url, n, fetchFails, fault) ==
    LET r == addDocumentation(url, n, Store(coll, points), provider,
                              fetchFails, fault) IN
    /\ coll' = r.st.coll
    /\ points' = r.st.points
    /\ last' = [Started("addDocumentation") EXCEPT
                    !.url = url, !.err = r.err, !.cause = r.cause,
                    !.faulted = (fetchFails \/ fault.at > 0),
                    !.existed = HasUrl(Store(coll, points), url),
                    !.wrote = Wrote(points, r.st.points),
                    !.changed = (r.st # Store(coll, points)),
                    !.upsertDim = r.upsertDim,
                    !.collSizeAtWrite = SizeOf(coll),
                    !.chunks = n, !.upserts = r.upserts]

\* AddDocumentationHandler.handle
AddDocumentation(url, n, fetchFails, fault) ==
    /\ phase = "serving"
    /\ Cardinality(RandIds(Store(coll, points))) + n <= MaxRand
    /\ (url = NoString \/ fetchFails) => (n = 1 /\ fault = NoFault)
    /\ url = NoString => ~fetchFails
    /\ Handled(url, n, fetchFails, fault)
    /\ UNCHANGED <<provider, phase, callers, search, listing, chunking, fetching>>

\* ListDocumentationHandler.handle: initializeCollection, then the count of
\* the records with chunkIndex = 0
ListDocumentation(fault) ==
    /\ phase = "serving"
    /\ LET r == initializeCollection(Store(coll, points), fault) IN
        /\ fault.at <= r.cs.steps
        /\ coll' = r.st.coll
        /\ points' = r.st.points
        /\ last' = [Started("listDocumentation") EXCEPT
                        !.err = IF r.cs.err = "none" THEN "none" ELSE "isError",
                        !.cause = r.cs.err,
                        !.faulted = (fault.at > 0),
                        !.changed = (r.st # Store(coll, points)),
                        !.initOk = (r.cs.err = "none"),
                        !.active = getVectorSize(provider),
                        !.req = r.cs.req, !.reqs = r.cs.reqs,
                        !.total = IF r.cs.err = "none"
                                  THEN listDocumentation(NoListing,
                                          Cardinality({q \in r.st.points : q.chunkIndex = 0}),
                                          FALSE).total
                                  ELSE 0]
    /\ UNCHANGED <<provider, phase, callers, search, listing, chunking, fetching>>

Next ==
    \/ \E f \in Faults(MaxFaultAt) : ServerStartup(f)
    \/ \E p \in Providers, g \in {"noText", "embedFails", "run"},
          f \in Faults(MaxFaultAt) : TestEmbeddings(p, g, f)
    \/ \E u \in URLS, k \in 0..3 : AddDocument(u, k)
    \/ \E u \in URLS, f \in BOOLEAN : DeleteDocument(u, f)
    \/ \E u \in URLS \cup {NoString}, n \in 1..MaxChunks, ff \in BOOLEAN :
            \E f \in BatchFaults(n) : AddDocumentation(u, n, ff, f)
    \/ \E f \in Faults(MaxFaultAt) : ListDocumentation(f)

Spec == Init /\ [][Next]_vars

----------------------------------------------------------------------------
(* Concurrent collection initialisation: two calls in flight, interleaved  *)
(* at their store requests (the awaits of initCollection and               *)
(* initializeCollection); no request fails for a reason of its own         *)

Callers == {1, 2}

InFlight(cs) == [cs |-> cs, sawAbsent |-> FALSE]

InitRace ==
    /\ coll \in InitColls
    /\ points = {}
    /\ provider = "ollama"
    /\ phase = "serving"
    /\ last = NoOutcome
    /\ search = NoSearch
    /\ listing = NoListing
    /\ chunking = NoChunking
    /\ fetching = NoFetch
    /\ callers \in [Callers ->
            {InFlight(Call("getCollections", getVectorSize(p))) : p \in Providers}
            \cup {InFlight(Call("w_getCollections", WrapperVectorSize))}]

\* the next store request of caller i
CallerStep(i) ==
    LET c == callers[i]
        r == InitStep([c.cs EXCEPT !.steps = @ + 1], Store(coll, points), "none")
    IN
    /\ c.cs.pc # "done"
    /\ coll' = r.st.coll
    /\ points' = r.st.points
    /\ callers' = [callers EXCEPT ![i] =
            [cs |-> r.cs,
             sawAbsent |-> c.sawAbsent \/
                           (c.cs.pc \in {"getCollections", "w_getCollections"}
                            /\ ~coll.exists)]]
    /\ UNCHANGED <<provider, phase, last, search, listing, chunking, fetching>>

ApiCallerStep(i) == ~IsWrapperPc(callers[i].cs.pc) /\ CallerStep(i)

WrapperCallerStep(i) == IsWrapperPc(callers[i].cs.pc) /\ CallerStep(i)

NextRace ==
    \/ \E i \in Callers : ApiCallerStep(i)
    \/ \E i \in Callers : WrapperCallerStep(i)

SpecRace == InitRace /\ [][NextRace]_vars

----------------------------------------------------------------------------
(* Concurrent addDocument calls: two calls in flight, interleaved at their *)
(* awaits (the existence check, the embedding, the upsert)                 *)

InitAddRace ==
    /\ provider \in Providers
    /\ coll \in {[NewColl(s) EXCEPT !.indexes = {"url", "timestamp"}] : s \in {768, 1536}}
    /\ points \in {{}, {Point(generatePointId(UrlB, 0), UrlB, Hostname(UrlB), 0, 1,
                              coll.size)}}
    /\ phase = "serving"
    /\ last = NoOutcome
    /\ search = NoSearch
    /\ listing = NoListing
    /\ chunking = NoChunking
    /\ fetching = NoFetch
    /\ callers \in [Callers -> {AddCall(u, Store(coll, points)) : u \in URLS}]

\* the next awaited request of caller i
AddCallerStep(i) ==
    LET c == callers[i]
        r == AddStep(c, Store(coll, points), provider)
    IN
    /\ c.pc # "done"
    /\ coll' = r.st.coll
    /\ points' = r.st.points
    /\ callers' = [callers EXCEPT ![i] = r.cs]
    /\ UNCHANGED <<provider, phase, last, search, listing, chunking, fetching>>

ExistsStep(i) == callers[i].pc = "documentExists" /\ AddCallerStep(i)

EmbedStep(i) == callers[i].pc = "generateEmbeddings" /\ AddCallerStep(i)

StoreStep(i) == callers[i].pc = "storeDocumentChunks" /\ AddCallerStep(i)

NextAddRace ==
    \/ \E i \in Callers : ExistsStep(i)
    \/ \E i \in Callers : EmbedStep(i)
    \/ \E i \in Callers : StoreStep(i)

SpecAddRace == InitAddRace /\ [][NextAddRace]_vars

----------------------------------------------------------------------------
(* Search requests: the request is drawn first, the store's candidates and *)
(* the faults when the handler runs                                        *)

Opt(S) == {Undefined} \cup {<<v>> : v \in S}

SearchOptions ==
    [limit : Opt({0, 1, 20, 21}),
     scoreThreshold : Opt({-1, 0, 5, 10, 11}),
     after : Opt({"", "2024-01-01T00:00:00Z", "yesterday"}),
     before : Opt({"2024-01-01T00:00:00Z", "tomorrow"}),
     domain : Opt({"a"}),
     hasCode : Opt({TRUE})]

\* the queries undefined, "", " " and "q"
Queries == Opt({<<>>, <<32>>, <<113>>})

Hits == [score : {3, 8}, payload : {"ok", "null", "nofields"}]

Descending(h) == \A i \in 1..(Len(h) - 1) : h[i].score >= h[i + 1].score

RECURSIVE SeqsUpTo(_, _)
SeqsUpTo(S, n) ==
    IF n = 0 THEN {<<>>}
    ELSE LET shorter == SeqsUpTo(S, n - 1)
         IN shorter \cup {Append(x, e) : x \in shorter, e \in S}

Candidates == {h \in SeqsUpTo(Hits, MaxHits) : Descending(h)}

InitSearch ==
    /\ coll = NewColl(WrapperVectorSize)
    /\ points = {}
    /\ provider = "ollama"
    /\ phase = "serving"
    /\ last = NoOutcome
    /\ callers = <<>>
    /\ search \in {[NoSearch EXCEPT !.pc = "request", !.query = qy, !.options = o] :
                        qy \in Queries, o \in Opt(SearchOptions)}
    /\ listing = NoListing
    /\ chunking = NoChunking
    /\ fetching = NoFetch

\* the search_documents tool
SearchDocumentation(cands, faultAt) ==
    /\ search.pc = "request"
    /\ LET r == searchDocumentation(search, cands, faultAt) IN
        /\ ~r.embedded => (cands = <<>> /\ faultAt = 0)
        /\ (r.embedded /\ ~r.queried) => (cands = <<>> /\ faultAt = 1)
        /\ search' = r
    /\ UNCHANGED <<coll, points, provider, phase, last, callers, listing, chunking, fetching>>

NextSearch == \E cands \in Candidates, k \in 0..2 : SearchDocumentation(cands, k)

SpecSearch == InitSearch /\ [][NextSearch]_vars

----------------------------------------------------------------------------
(* List requests: the arguments are drawn first, the store's count and the *)
(* fault when the handler runs                                             *)

ListArgs == [page : Opt({-1, 0, 1, 2, 3, 5}), pageSize : Opt({0, 1, 20})]

InitList ==
    /\ coll = [NewColl(WrapperVectorSize) EXCEPT !.indexes = {"url", "domain", "timestamp"}]
    /\ points = {}
    /\ provider = "ollama"
    /\ phase = "serving"
    /\ last = NoOutcome
    /\ callers = <<>>
    /\ search = NoSearch
    /\ chunking = NoChunking
    /\ fetching = NoFetch
    /\ listing \in {[NoListing EXCEPT !.pc = "request", !.page = a.page,
                                      !.pageSize = a.pageSize] : a \in ListArgs}

\* the list_documents tool
ListPage(count, fault) ==
    /\ listing.pc = "request"
    /\ initializeCollection(Store(coll, points), NoFault).cs.err = "none"
    /\ listing' = listDocumentation(listing, count, fault)
    /\ UNCHANGED <<coll, points, provider, phase, last, callers, search, chunking, fetching>>

NextList == \E count \in 0..MaxTotal, fault \in BOOLEAN : ListPage(count, fault)

SpecList == InitList /\ [][NextList]_vars

----------------------------------------------------------------------------
(* Chunking calls: the class and the options are drawn first, the text     *)
(* when chunkText runs                                                     *)

ChunkOptionSets ==
    [maxChunkSize : Opt({0, 6}),
     minChunkSize : Opt({0, 2, 6}),
     overlap : Opt({0, 5, 6}),
     overlapWords : Opt({0, 1}),
     respectCodeBlocks : Opt({FALSE, TRUE}),
     fileType : Opt({"text", "pdf", "docx"})]

\* "a b. ", "aaaaaa. ", "```c```", "```cccc```", "\n\n" and "\f"
Pieces ==
    {<<97, 32, 98, 46, 32>>, <<97, 97, 97, 97, 97, 97, 46, 32>>,
     <<96, 96, 96, 99, 96, 96, 96>>, <<96, 96, 96, 99, 99, 99, 99, 96, 96, 96>>,
     <<10, 10>>, <<12>>}

\* "Hello world. ```code block here``` More text."
ExampleText ==
    <<72, 101, 108, 108, 111, 32, 119, 111, 114, 108, 100, 46, 32, 96,
       96, 96, 99, 111, 100, 101, 32, 98, 108, 111, 99, 107, 32, 104,
       101, 114, 101, 96, 96, 96, 32, 77, 111, 114, 101, 32, 116, 101,
       120, 116, 46>>

RECURSIVE Concat(_)
Concat(ps) == IF ps = <<>> THEN <<>> ELSE Head(ps) \o Concat(Tail(ps))

Texts == {Concat(ps) : ps \in SeqsUpTo(Pieces, MaxPieces)} \cup {ExampleText}

InitChunk ==
    /\ coll = NoColl
    /\ points = {}
    /\ provider = "ollama"
    /\ phase = "serving"
    /\ last = NoOutcome
    /\ callers = <<>>
    /\ search = NoSearch
    /\ listing = NoListing
    /\ chunking \in {[NoChunking EXCEPT !.pc = "call", !.impl = impl, !.options = o] :
                        impl \in {"plain", "typed"}, o \in ChunkOptionSets}
    /\ fetching = NoFetch

\* TextChunker.chunkText(text, options)
ChunkText(text) ==
    /\ chunking.pc = "call"
    /\ LET r == chunkText(chunking.impl, text, chunking.options) IN
        chunking' = [chunking EXCEPT !.pc = "done", !.text = text,
                                     !.err = r.err, !.chunks = r.chunks]
    /\ UNCHANGED <<coll, points, provider, phase, last, callers, search, listing,
                   fetching>>

NextChunk == \E text \in Texts : ChunkText(text)

SpecChunk == InitChunk /\ [][NextChunk]_vars

----------------------------------------------------------------------------
(* Batched ingestion: one call of AddDocumentationHandler.handle with a    *)
(* content of up to MaxBatches batches, on a store that may hold the one   *)
(* record of an earlier ingestion of UrlA by addDocument or by the handler *)

\* 1, 100, 101, 200, ... chunks
ChunkCounts ==
    {k * BATCH_SIZE + d : k \in 0..(MaxBatches - 1), d \in {1, BATCH_SIZE}}

InitBatch ==
    /\ coll \in {[NewColl(s) EXCEPT !.indexes = {"url", "timestamp"}] : s \in {768, 1536}}
    /\ points \in {{},
                   {Point(generatePointId(UrlA, 0), UrlA, Hostname(UrlA), 0, 1, coll.size)},
                   {Point(RandomPointId(1), UrlA, NoString, NoNumber, NoNumber, coll.size)}}
    /\ provider \in Providers
    /\ phase = "serving"
    /\ last = NoOutcome
    /\ callers = <<>>
    /\ search = NoSearch
    /\ listing = NoListing
    /\ chunking = NoChunking
    /\ fetching = NoFetch

\* AddDocumentationHandler.handle for a content of n chunks
IngestBatches(url, n, fetchFails, fault) ==
    /\ phase = "serving"
    /\ last.op = "none"
    /\ (url = NoString \/ fetchFails) => (n = 1 /\ fault = NoFault)
    /\ url = NoString => ~fetchFails
    /\ Handled(url, n, fetchFails, fault)
    /\ UNCHANGED <<provider, phase, callers, search, listing, chunking, fetching>>

NextBatch ==
    \E u \in {UrlA, UrlB, NoString}, n \in ChunkCounts, ff \in BOOLEAN :
        \E f \in BatchFaults(n) : IngestBatches(u, n, ff, f)

SpecBatch == InitBatch /\ [][NextBatch]_vars

----------------------------------------------------------------------------
(* Replacing ingestion: AddDocumentationTool.addDocument on a store that   *)
(* may hold a version of "http://a/", stored by the tool or by addDocument *)

\* the urls given to the tool: those of URLS, "http://a/" and ""
ToolUrls == URLS \cup {UrlA \o <<47>>, NoString}

\* the records of a document of k chunks as storeDocumentChunks leaves them
StoredVersion(url, k, dim) ==
    {Point(generatePointId(url, i), url, Hostname(url), i, k, dim) : i \in 0..(k - 1)}

InitReplace ==
    /\ coll \in {NoColl,
                 [NewColl(WrapperVectorSize) EXCEPT !.indexes = {"url", "domain", "timestamp"}],
                 [NewColl(ToolVectorSize) EXCEPT !.indexes = {"url", "timestamp"}]}
    /\ points \in {{}} \cup
            {StoredVersion(UrlA \o <<47>>, k, coll.size) :
                k \in 1..(IF coll.size = ToolVectorSize THEN MaxToolChunks
                          ELSE IF coll.exists THEN 1 ELSE 0)}
    /\ provider = "openai"
    /\ phase = "serving"
    /\ last = NoOutcome
    /\ callers = <<>>
    /\ search = NoSearch
    /\ listing = NoListing
    /\ chunking = NoChunking
    /\ fetching = NoFetch

\* what a call that ended with r leaves in the store and reports; u is the
\* normalized url
ToolHandled(u, n, r, failing) ==
    /\ failing # "none" => r.cause = failing
    /\ coll' = r.st.coll
    /\ points' = r.st.points
    /\ last' = [Started("toolAddDocument") EXCEPT
                    !.url = u, !.err = r.err, !.cause = r.cause,
                    !.faulted = (failing # "none"),
                    !.existed = HasUrl(Store(coll, points), u),
                    !.wrote = Wrote(points, r.st.points),
                    !.changed = (r.st # Store(coll, points)),
                    !.upsertDim = r.upsertDim,
                    !.collSizeAtWrite = SizeOf(r.st.coll),
                    !.chunks = n]

\* AddDocumentationTool.addDocument(url)
ToolAddDocument(url, n, failing) ==
    /\ phase = "serving"
    /\ ToolHandled(processURL(url).normalizedUrl, n,
                   toolAddDocument(url, n, Store(coll, points), failing), failing)
    /\ UNCHANGED <<provider, callers, phase, search, listing, chunking, fetching>>

NextReplace ==
    \E u \in ToolUrls, n \in 1..MaxToolChunks,
       f \in {"none"} \cup {ToolSteps[i] : i \in 1..Len(ToolSteps)} :
        ToolAddDocument(u, n, f)

SpecReplace == InitReplace /\ [][NextReplace]_vars

----------------------------------------------------------------------------
(* Fetches: one fetch of each kind, the result of every attempt drawn when *)
(* the attempt ends.  Every attempt ends (the requests have a timeout) and *)
(* every delay elapses, hence the fairness condition.                      *)

InitFetch ==
    /\ coll = NoColl
    /\ points = {}
    /\ provider = "ollama"
    /\ phase = "serving"
    /\ last = NoOutcome
    /\ callers = <<>>
    /\ search = NoSearch
    /\ listing = NoListing
    /\ chunking = NoChunking
    /\ fetching \in {[NoFetch EXCEPT !.pc = "attempt", !.kind = k] : k \in FetchKinds}

\* one attempt of the fetch
Attempt(result) ==
    /\ fetching.pc = "attempt"
    /\ fetching' = IF result = "ok" THEN Succeeded(fetching) ELSE Failed(fetching, result)
    /\ UNCHANGED <<coll, points, provider, phase, last, callers, search, listing,
                   chunking>>

\* FileContentFetcher.fetchRemoteFile
FetchRemoteFile(result) == fetching.kind = "remote" /\ Attempt(result)

\* FileContentFetcher.fetchLocalFile
FetchLocalFile(result) == fetching.kind = "local" /\ Attempt(result)

\* ContentFetcher.fetchContent
FetchPage(result) == fetching.kind = "page" /\ Attempt(result)

\* the setTimeout of RETRY_DELAY elapses
RetryDelay ==
    /\ fetching.pc = "delay"
    /\ fetching' = LoopHead(fetching)
    /\ UNCHANGED <<coll, points, provider, phase, last, callers, search, listing,
                   chunking>>

NextFetch ==
    \/ \E r \in AttemptResults : FetchRemoteFile(r)
    \/ \E r \in AttemptResults : FetchLocalFile(r)
    \/ \E r \in AttemptResults : FetchPage(r)
    \/ RetryDelay

SpecFetch == InitFetch /\ [][NextFetch]_vars /\ WF_vars(NextFetch)

----------------------------------------------------------------------------
(* Claims *)

\* C1: addDocument for a url that has a stored record fails with the
\* duplicate error (McpError InvalidRequest, "already exists"), not with the
\* error of a store failure, and writes nothing.
C1_DuplicateRejected ==
    (last.op = "addDocument" /\ last.existed /\ ~last.faulted) =>
        /\ last.err = "InvalidRequest"
        /\ last.cause = "duplicate"
        /\ last.upsertDim = 0
        /\ ~last.changed

\* C2: for a stored url, deleteDocument(url) succeeds and the addDocument(url)
\* that follows succeeds too, leaving a canonical record (chunkIndex = 0) of
\* that url and no record of it from an earlier ingestion.
C2_DeleteThenAdd ==
    /\ (last.op = "deleteDocument" /\ last.existed /\ ~last.faulted) =>
            last.err = "none"
    /\ (last.op = "addDocument" /\ last.afterDelete /\ ~last.faulted) =>
            /\ last.err = "none"
            /\ \E q \in points : q.url = last.url /\ q.chunkIndex = 0
            /\ \A q \in points : q.url = last.url => q.id \in last.wrote

\* C3: a successful deleteDocument(url) leaves no record with that url and
\* leaves every other record, and the collection, as they were.
C3_DeleteRemovesExactly ==
    [][(last'.op = "deleteDocument" /\ last'.err = "none") =>
            /\ \A q \in points' : q.url # last'.url
            /\ points' = {q \in points : q.url # last'.url}
            /\ coll' = coll]_vars

C3_Witness ==
    /\ last.op = "deleteDocument"
    /\ last.err = "none"
    /\ last.existed
    /\ last.changed
    /\ points # {}

\* C4: deleteDocument(url) for a url string without a stored record, a
\* relative file path included, raises no error and changes nothing.
C4_DeleteMissingIsNoop ==
    (last.op = "deleteDocument" /\ ~last.existed /\ ~last.faulted /\ coll.exists) =>
        (last.err = "none" /\ ~last.changed)

\* C5: when a collection initialisation returns successfully (start-up,
\* before listing, after a provider switch) the collection exists with cosine
\* distance and the vector size of the provider active for the calling client.
C5_InitMatchesProvider ==
    last.initOk =>
        (coll.exists /\ coll.distance = "Cosine" /\ coll.size = last.active)

InitKind(op) ==
    IF op = "testEmbeddings" THEN "api"
    ELSE IF op \in {"startup", "listDocumentation"} THEN "wrapper"
    ELSE "none"

\* C6: a collection initialisation made right after a successful one of the
\* same function with the same required vector size issues no create-collection,
\* delete-collection or create-index request and changes neither the
\* collection nor its records.
C6_EnsureIdempotent ==
    [][(/\ last.initOk
        /\ last'.req # 0
        /\ last'.req = last.req
        /\ InitKind(last'.op) = InitKind(last.op)) =>
            (last'.reqs = {} /\ coll' = coll /\ points' = points)]_vars

C6_Witness ==
    /\ last.op = "testEmbeddings"
    /\ last.initOk
    /\ last.again
    /\ last.reqs = {}
    /\ points # {}

\* C7: initCollection on a collection whose vector size differs from the
\* required one deletes and recreates it: when it returns successfully the
\* collection has the required size and none of the earlier records.
C7_MismatchRecreates ==
    [][(/\ last'.op = "testEmbeddings"
        /\ last'.initOk
        /\ coll.exists
        /\ coll.size # last'.req) =>
            /\ coll'.exists
            /\ coll'.size = last'.req
            /\ points' = {}
            /\ {"deleteCollection", "createCollection"} \subseteq last'.reqs]_vars

C7_Witness ==
    /\ last.op = "testEmbeddings"
    /\ last.initOk
    /\ last.preSize = 768
    /\ last.req = 1536
    /\ last.hadPoints
    /\ coll.size = 1536
    /\ points = {}

\* C8: every vector submitted for upsert has the dimensionality of the
\* collection at the time of the write.
C8_UpsertDimMatches ==
    last.upsertDim # 0 => last.upsertDim = last.collSizeAtWrite

\* C9: when two concurrent initialisations with the same required size both
\* saw the collection absent, neither fails, and the collection ends up with
\* that size and the url and timestamp indexes.
C9_RaceSerialized ==
    (/\ \A i \in Callers : callers[i].cs.pc = "done" /\ callers[i].sawAbsent
     /\ \A i, j \in Callers : callers[i].cs.req = callers[j].cs.req) =>
        /\ \A i \in Callers : callers[i].cs.err = "none"
        /\ coll.exists
        /\ \A i \in Callers : coll.size = callers[i].cs.req
        /\ {"url", "timestamp"} \subseteq coll.indexes

OutOfRange(o) ==
    \/ Given(o.limit) /\ (Val(o.limit) < 1 \/ Val(o.limit) > 20)
    \/ Given(o.scoreThreshold) /\ (Val(o.scoreThreshold) < 0 \/ Val(o.scoreThreshold) > 10)

Rejected ==
    search.err = "InvalidRequest" /\ ~search.embedded /\ ~search.queried

\* C10 as stated: a search whose limit or scoreThreshold is out of range, or
\* whose after/before filter does not parse as a date, is rejected before any
\* embedding is generated and before the store is queried.
C10_InvalidRejected ==
    (/\ search.pc = "done"
     /\ Given(search.options)
     /\ LET o == Val(search.options) IN
          \/ OutOfRange(o)
          \/ Given(o.after) /\ DateParseIsNaN(Val(o.after))
          \/ Given(o.before) /\ DateParseIsNaN(Val(o.before))) =>
        Rejected

\* The part of C10 that the code keeps: an out-of-range limit or
\* scoreThreshold, or an after/before filter that is a non-empty string and
\* does not parse as a date, is rejected before embedding and query.
C10_NonEmptyInvalidRejected ==
    (/\ search.pc = "done"
     /\ Given(search.options)
     /\ LET o == Val(search.options) IN
          \/ OutOfRange(o)
          \/ Given(o.after) /\ Val(o.after) # "" /\ DateParseIsNaN(Val(o.after))
          \/ Given(o.before) /\ Val(o.before) # "" /\ DateParseIsNaN(Val(o.before))) =>
        Rejected

C10_Witness ==
    /\ search.pc = "done"
    /\ search.query = <<(<<113>>)>>
    /\ Given(search.options)
    /\ Val(search.options).limit = <<21>>
    /\ Val(search.options).after = <<"yesterday">>
    /\ Rejected

\* the options of a finished search that reached the store
SearchedWith ==
    IF Given(search.options) THEN Val(search.options) ELSE NoOptions

\* C11: a search with limit L asks the store for ceil(1.5 * L) candidates and,
\* when it succeeds, returns exactly the first min(L, n) of the n hits of the
\* store's response, in the response's order, none skipped or repeated.
C11_OverfetchTruncate ==
    (search.pc = "done" /\ search.queried /\ Given(SearchedWith.limit)) =>
        LET L == Val(SearchedWith.limit)
            n == Len(search.response)
        IN /\ 2 * search.q.qLimit >= 3 * L
           /\ 2 * search.q.qLimit < 3 * L + 2
           /\ search.err = "none" =>
                /\ Len(search.results) = IF L < n THEN L ELSE n
                /\ \A i \in 1..Len(search.results) :
                      /\ search.results[i].id = search.response[i].id
                      /\ search.results[i].score = search.response[i].score + 10

C11_Witness ==
    /\ search.pc = "done"
    /\ search.err = "none"
    /\ SearchedWith.limit = <<1>>
    /\ search.q.qLimit = 2
    /\ Len(search.response) = 2
    /\ Len(search.results) = 1
    /\ search.results[1].id = 1

\* the candidates whose normalized score (in twentieths) is at least the
\* threshold t (in tenths)
EligibleAt(t) ==
    {i \in 1..Len(search.cands) : search.cands[i].score + 10 >= 2 * t}

\* C12: the store is given the raw-scale equivalent 2t - 1 of the caller's
\* threshold t, so that a candidate is in the response exactly when its
\* normalized score is at least t (as far as the query limit allows).  Stated
\* for a threshold t > 0, which the code does not replace by its default.
C12_ThresholdNormalized ==
    (/\ search.pc = "done" /\ search.queried /\ search.err = "none"
     /\ Given(SearchedWith.scoreThreshold)
     /\ Val(SearchedWith.scoreThreshold) > 0) =>
        LET t == Val(SearchedWith.scoreThreshold)
            e == Cardinality(EligibleAt(t))
        IN /\ search.q.qThreshold = 2 * t - 10
           /\ Len(search.response) = IF e < search.q.qLimit THEN e ELSE search.q.qLimit

\* C13: when a hit of the store's response has a payload that is missing, not
\* an object, or lacks a required field, the search fails with the store
\* error and returns no results.
C13_MalformedFails ==
    (/\ search.pc = "done" /\ search.queried
     /\ \E i \in 1..Len(search.response) : search.response[i].payload # "ok") =>
        /\ search.err = "InternalError"
        /\ search.cause = "QdrantError"
        /\ search.results = <<>>

\* C14: a listing reports totalPages = ceil(total / pageSize) for the count
\* taken before pagination, clamps the requested page into [1, totalPages],
\* and fetches and reports the page at offset (clampedPage - 1) * pageSize.
C14_PageClamped ==
    (listing.pc = "done" /\ listing.err = "none" /\ listing.total > 0) =>
        LET pageSize == listing.shownPageSize
            requested == IF Given(listing.page) THEN Val(listing.page) ELSE 1
            clamped == IF requested < 1 THEN 1
                       ELSE IF requested > listing.totalPages THEN listing.totalPages
                       ELSE requested
        IN /\ listing.total = listing.count
           /\ listing.totalPages * pageSize >= listing.total
           /\ (listing.totalPages - 1) * pageSize < listing.total
           /\ listing.shownPage = clamped
           /\ listing.qOffset = (clamped - 1) * pageSize
           /\ listing.documents =
                {i \in 1..listing.total : (clamped - 1) * pageSize < i
                                           /\ i <= clamped * pageSize}

\* C14, its worked example: total 45, pageSize 20 gives 3 pages, and a
\* request for page 5 is served as page 3.
C14_Example ==
    (/\ listing.pc = "done" /\ listing.err = "none"
     /\ listing.total = 45 /\ listing.shownPageSize = 20
     /\ listing.page = <<5>>) =>
        (listing.totalPages = 3 /\ listing.shownPage = 3 /\ listing.qOffset = 40)

\* C15: a listing counts each stored document once: at most one record with
\* chunkIndex = 0 per url, and the reported total is the number of urls that
\* have stored records.
C15_ListingCountsDocuments ==
    (last.op = "listDocumentation" /\ last.err = "none") =>
        /\ \A q1, q2 \in points :
              (q1.url = q2.url /\ q1.chunkIndex = 0 /\ q2.chunkIndex = 0) => q1 = q2
        /\ last.total = Cardinality({q.url : q \in points})

\* the options of the last chunkText call with the defaults filled in
ChunkedWith == MergeTyped(chunking.options)

\* C16: the chunks chunkText returns carry the indices 0, 1, ..., n-1 in
\* output order.
C16_IndicesContiguous ==
    (chunking.pc = "done" /\ chunking.err = "none") =>
        \A i \in 1..Len(chunking.chunks) : chunking.chunks[i].index = i - 1

\* C17: chunkText fails, producing no chunks, whenever maxChunkSize <=
\* minChunkSize, or overlap >= maxChunkSize, or one of maxChunkSize,
\* minChunkSize and overlap is not positive.
C17_InvalidOptionsRejected ==
    (/\ chunking.pc = "done"
     /\ \/ ChunkedWith.maxChunkSize <= ChunkedWith.minChunkSize
        \/ ChunkedWith.overlap >= ChunkedWith.maxChunkSize
        \/ ChunkedWith.maxChunkSize <= 0
        \/ ChunkedWith.minChunkSize <= 0
        \/ ChunkedWith.overlap <= 0) =>
        (chunking.err # "none" /\ chunking.chunks = <<>>)

\* the options are valid in the sense of C17
ValidChunkOptions ==
    /\ ChunkedWith.maxChunkSize > ChunkedWith.minChunkSize
    /\ ChunkedWith.overlap < ChunkedWith.maxChunkSize
    /\ ChunkedWith.minChunkSize > 0
    /\ ChunkedWith.overlap > 0

\* C18: with valid options every chunk has at most maxChunkSize characters,
\* except a code block of at most 1.5 * maxChunkSize characters and the
\* trailing chunk of a segment.
C18_ChunkSizeBounded ==
    (chunking.pc = "done" /\ chunking.err = "none" /\ ValidChunkOptions) =>
        \A i \in 1..Len(chunking.chunks) :
            LET c == chunking.chunks[i] IN
            \/ Len(c.content) <= ChunkedWith.maxChunkSize
            \/ c.isCodeBlock /\ 2 * Len(c.content) <= 3 * ChunkedWith.maxChunkSize
            \/ c.trailing

\* C19: with respectCodeBlocks set, every fenced code segment of at most
\* 1.5 * maxChunkSize characters is one chunk, whole and tagged isCodeBlock,
\* and no chunk that is not tagged holds a fence.
C19_CodeBlocksIntact ==
    (/\ chunking.pc = "done" /\ chunking.err = "none"
     /\ chunking.options.respectCodeBlocks = <<TRUE>>) =>
        LET segments == separateCodeBlocks(chunking.text)
            chunks == chunking.chunks
        IN /\ \A j \in 1..Len(segments) :
                (/\ segments[j].isCodeBlock
                 /\ 2 * Len(segments[j].content) <= 3 * ChunkedWith.maxChunkSize) =>
                    Cardinality({i \in 1..Len(chunks) :
                                    /\ chunks[i].content = segments[j].content
                                    /\ chunks[i].isCodeBlock})
                    = Cardinality({k \in 1..Len(segments) :
                                    /\ segments[k].content = segments[j].content
                                    /\ segments[k].isCodeBlock})
           /\ \A i \in 1..Len(chunks) :
                ~chunks[i].isCodeBlock => FenceAt(chunks[i].content, 1) = 0

\* C19, its worked example: "Hello world. ```code block here``` More text."
\* with maxChunkSize 1000 and respectCodeBlocks gives a prose chunk, the code
\* block whole and tagged, and a prose chunk.
C19_Example ==
    (/\ chunking.pc = "done" /\ chunking.err = "none"
     /\ chunking.text = ExampleText
     /\ chunking.options.respectCodeBlocks = <<TRUE>>
     /\ ChunkedWith.maxChunkSize = 1000) =>
        /\ Len(chunking.chunks) = 3
        /\ chunking.chunks[2].content = SubSeq(ExampleText, 14, 34)
        /\ chunking.chunks[2].isCodeBlock
        /\ ~chunking.chunks[1].isCodeBlock /\ ~chunking.chunks[3].isCodeBlock

\* the k of C20: overlapWords when the caller gives it, floor(overlap / 10)
\* otherwise
ClaimedOverlapWords ==
    IF Given(chunking.options.overlapWords) THEN Val(chunking.options.overlapWords)
    ELSE ChunkedWith.overlap \div 10

\* C20: for a prose text of two blocks b1, b2 the buffer b1 is flushed
\* exactly when b1 and b2 together exceed maxChunkSize and b1 has at least
\* minChunkSize characters, and the next buffer is then the last k words of
\* b1 followed by b2 (no word of b1 when k = 0).  Stated for the plain class
\* without overlapWords and for the file-type aware class with overlapWords.
C20_FlushAndOverlap ==
    (/\ chunking.pc = "done" /\ chunking.err = "none"
     /\ ChunkedWith.maxChunkSize > 0 /\ ChunkedWith.minChunkSize > 0
     /\ ChunkedWith.overlap >= 0
     /\ (chunking.impl = "plain") = (chunking.options.overlapWords = Undefined)
     /\ chunking.options.fileType \notin {<<"pdf">>, <<"docx">>}
     /\ FenceAt(chunking.text, 1) = 0
     /\ Len(Blocks(chunking.text, FALSE)) = 2
     /\ \A i \in 1..2 : Blocks(chunking.text, FALSE)[i] # <<>>) =>
        LET b1 == Blocks(chunking.text, FALSE)[1]
            b2 == Blocks(chunking.text, FALSE)[2]
            words == Split(b1, "words")
            k == ClaimedOverlapWords
            kept == SubSeq(words, Max(1, Len(words) - k + 1), Len(words))
            chunks == chunking.chunks
        IN IF Len(b1) + Len(b2) > ChunkedWith.maxChunkSize
              /\ Len(b1) >= ChunkedWith.minChunkSize
           THEN /\ Len(chunks) = 2
                /\ chunks[1].content = b1
                /\ Trim(chunks[2].content) = Join(kept \o <<b2>>)
           ELSE /\ Len(chunks) = 1
                /\ chunks[1].content = b1 \o <<32>> \o b2

\* C21: every chunk's startPosition and endPosition are offsets into the
\* text given to chunkText: 0 <= startPosition <= endPosition <= length(text).
C21_PositionsWithinText ==
    (chunking.pc = "done" /\ chunking.err = "none") =>
        \A i \in 1..Len(chunking.chunks) :
            LET c == chunking.chunks[i] IN
            /\ 0 <= c.startPosition
            /\ c.startPosition <= c.endPosition
            /\ c.endPosition <= Len(chunking.text)

\* the sum of the first k entries of a sequence of numbers
RECURSIVE SumTo(_, _)
SumTo(sizes, k) == IF k = 0 THEN 0 ELSE sizes[k] + SumTo(sizes, k - 1)

\* C22: the handler's ingestion of n chunks requests one upsert per batch of
\* at most 100 chunks, in order; when the upsert of batch N fails the call
\* ends with the store error (McpError InternalError), no later batch is
\* requested, and the records of the batches before N stay stored, as do the
\* records stored before the call.
C22_BatchesNoRollback ==
    [][(/\ last'.op = "addDocumentation"
        /\ last'.cause \notin {"url", "fetch", "embedding"}) =>
            LET ups == last'.upserts
                n == last'.chunks
                new == points' \ points
            IN /\ \A i \in 1..Len(ups) : ups[i] >= 1 /\ ups[i] <= 100
               /\ \A i \in 1..(Len(ups) - 1) : ups[i] = 100
               /\ points \subseteq points'
               /\ \A q \in new : q.url = last'.url
               /\ IF last'.err = "none"
                  THEN /\ 100 * (Len(ups) - 1) < n /\ n <= 100 * Len(ups)
                       /\ SumTo(ups, Len(ups)) = n
                       /\ Cardinality(new) = n
                  ELSE /\ last'.err = "InternalError"
                       /\ last'.cause \in {"store", "baddim", "notfound"}
                       /\ Len(ups) >= 1
                       /\ SumTo(ups, Len(ups)) <= n
                       /\ Cardinality(new) = 100 * (Len(ups) - 1)]_vars

C22_Witness ==
    /\ last.op = "addDocumentation"
    /\ last.chunks = 201
    /\ last.err = "InternalError"
    /\ last.cause = "store"
    /\ last.upserts = <<100, 100>>
    /\ Cardinality({q \in points : q.id.kind = "rand"}) = 100
    /\ \E q \in points : q.id.kind = "hash"

\* the attempts of the fetch so far
Attempts == fetching.log

\* no fetch makes more than 3 attempts; a successful attempt is the last one
\* and ends the fetch with its result; after 3 failed attempts the fetch has
\* ended with the error of the third one
AttemptsBounded ==
    /\ Len(Attempts) <= 3
    /\ \A i \in 1..(Len(Attempts) - 1) : Attempts[i] # "ok"
    /\ (Attempts # <<>> /\ Attempts[Len(Attempts)] = "ok") =>
            (fetching.pc = "done" /\ fetching.outcome = "ok")
    /\ (Len(Attempts) = 3 /\ Attempts[3] # "ok") =>
            /\ fetching.pc = "done"
            /\ fetching.outcome = "error"
            /\ fetching.surfaced = IF Attempts[3] = "notFound"
                                   THEN NotFoundMessage(fetching.kind)
                                   ELSE Attempts[3]

\* C23: every retried fetch (remote file, local file, web page) ends after at
\* most 3 attempts: at its first successful attempt, with no attempt after it,
\* or, when 3 attempts failed, with the error of the last attempt.
C23_RetriesBounded ==
    /\ []AttemptsBounded
    /\ <>(fetching.pc = "done")

C23_Witness ==
    /\ fetching.pc = "done"
    /\ fetching.kind = "local"
    /\ fetching.log = <<"ETIMEDOUT", "ECONNRESET", "unsupported">>
    /\ fetching.outcome = "error"
    /\ fetching.surfaced = "unsupported"

\* C24: the record ids are a function of (url, chunkIndex) on every ingestion
\* path, so a document ingested again overwrites its records: after a
\* successful ingestion of n chunks of a url of which at most n chunks were
\* stored, every record of the url carries the id generatePointId gives for
\* its url and chunk index, and the url has exactly n records.
C24_ReingestOverwrites ==
    [][(/\ last'.op = "addDocumentation"
        /\ last'.err = "none"
        /\ Cardinality({q \in points : q.url = last'.url}) <= last'.chunks) =>
            /\ \A q \in points' :
                  q.url = last'.url => q.id = generatePointId(q.url, q.chunkIndex)
            /\ Cardinality({q \in points' : q.url = last'.url}) = last'.chunks]_vars

\* C25: of two concurrent addDocument calls for the same url, which had no
\* record when they were made, at most one succeeds; the other fails with the
\* duplicate error.
C25_ConcurrentAddsExclusive ==
    (/\ \A i \in Callers : callers[i].pc = "done" /\ ~callers[i].stored
     /\ callers[1].url = callers[2].url
     /\ \E i \in Callers : callers[i].err = "none") =>
        \E i, j \in Callers :
            /\ i # j
            /\ callers[i].err = "none"
            /\ callers[j].err # "none"
            /\ callers[j].cause = "duplicate"

\* C26: when initCollection fails on an existing collection that it has to
\* migrate to another vector size, a collection is still present afterwards.
C26_FailedRecreateKeepsCollection ==
    [][(/\ last'.op = "testEmbeddings"
        /\ last'.req # 0
        /\ ~last'.initOk
        /\ coll.exists
        /\ NeedsRecreate(coll.size, last'.req)) =>
            coll'.exists]_vars

\* C27: whenever the most recent collection initialisation returned
\* successfully, the collection has the url and the timestamp payload index,
\* whatever store requests failed in the calls before it.
C27_IndexesAfterSuccess ==
    last.initOk => (coll.exists /\ {"url", "timestamp"} \subseteq coll.indexes)

\* C28: a search that reaches the store queries it with the limit and the
\* scoreThreshold the caller gave; the defaults 5 and 0.7 are used only for an
\* option that was omitted, so an explicit scoreThreshold of 0 gives a query
\* with threshold 0.
C28_ExplicitOptionsUsed ==
    (search.pc = "done" /\ search.queried) =>
        LET L == IF Given(SearchedWith.limit) THEN Val(SearchedWith.limit) ELSE 5
            t == IF Given(SearchedWith.scoreThreshold)
                 THEN Val(SearchedWith.scoreThreshold) ELSE 7
        IN /\ search.q.qThreshold = t
           /\ 2 * search.q.qLimit >= 3 * L
           /\ 2 * search.q.qLimit < 3 * L + 2

\* C29: when AddDocumentationTool.addDocument fails for a url that has a
\* stored version, whatever step fails, the records of that version are
\* still stored afterwards.
C29_FailedReplaceKeepsOld ==
    [][(/\ last'.op = "toolAddDocument"
        /\ last'.err # "none"
        /\ last'.existed) =>
            {q \in points : q.url = last'.url} \subseteq points']_vars

\* C30: for every total >= 0, page size >= 1 and requested page, the offset
\* sent to the store and the offset getPaginationDetails computes are not
\* negative.
C30_OffsetsNonNegative ==
    (listing.pc = "done" /\ listing.count >= 0) =>
        /\ listing.qOffset >= 0
        /\ listing.err = "none" => (listing.shownPageSize >= 1 /\ listing.offset >= 0)

====
